---- MODULE Spec2Model ----
(***************************************************************************)
(* Retrieval core of the RAG legal chat project:                           *)
(*   - clean_and_chunk.py   : paragraph chunker (SpecChunk)                *)
(*   - create_embeddings.py : index build, two files on disk (SpecBuild)   *)
(*   - vector_client.py, retrieval_agent.py : lazy client + retrieve       *)
(*                                            (SpecRetrieve)               *)
(* Strings of the chunker are sequences of one-character strings.          *)
(***************************************************************************)
EXTENDS Integers, Sequences, FiniteSets, TLC

VARIABLES
    \* ---- chunk_text_by_paragraphs (clean_and_chunk.py) ----
    text,            \* argument
    max_chars,       \* argument
    overlap,         \* argument
    paragraphs,      \* text.split("\n\n")
    para_i,          \* number of paragraphs the for loop has consumed
    chunks,          \* list being returned
    current_chunk,   \* chunk being accumulated
    pc_chunk,        \* "begin" | "loop" | "done" | "off"
    chunk_seeds,     \* history: overlap_text each emitted chunk was seeded with
    chunk_paras,     \* history: paragraphs accumulated into each emitted chunk
    cur_seed,        \* history: overlap_text of current_chunk
    cur_paras,       \* history: paragraphs accumulated into current_chunk
    \* ---- create_embeddings.main ----
    disk_index,      \* index.faiss of the index directory
    disk_meta,       \* metadata.json of the index directory
    folder,          \* --input_dir: file name -> lines of the .jsonl file
    records,         \* main: records
    embs,            \* main: embs
    pc_build,        \* "start" | "loaded" | "embedded" | "index_written" |
                     \* "meta_open" | "done" | "no_records" | "failed" | "off"
    \* ---- retrieval_agent.py, vector_client.py ----
    libs,            \* which of faiss, SentenceTransformer, TfidfVectorizer
                     \* the module-level imports of vector_client.py found
    _client,         \* retrieval_agent._client
    pc,              \* per thread: "idle" | "get_client" | "constructing" |
                     \* "search"
    client,          \* per thread: retrieve's local client
    top_k,           \* per thread: retrieve's argument
    ret,             \* per thread: what the last retrieve call did
    calls,           \* retrieve calls made so far, over all threads
    loads,           \* history: VectorClient constructions that succeeded
    searched,        \* history, per thread: the index.search calls of the
                     \* latest retrieve, with what the index returned
    \* ---- clean_text followed by the chunker (process_file, lines 102-103) ----
    raw,             \* the text clean_text is given
    cleaned,         \* clean_text(raw)
    recleaned,       \* clean_text(cleaned)
    pc_clean,        \* "raw" | "cleaned" | "recleaned" | "chunking" | "off"
    \* ---- process_file (clean_and_chunk.py) ----
    source_id,       \* meta["source_id"], the stem of path
    dry_run,         \* argument
    out_dir,         \* out_dir: source_id -> records of <source_id>.jsonl
    pc_ingest,       \* "idle" | "chunking" | "off"
    ingests,         \* process_file calls made so far
    latest,          \* history: source_id -> chunks of the latest call that
                     \* was not a dry run
    \* ---- a VectorClient used directly (vector_client.py) ----
    vc,              \* the VectorClient object
    model_arg,       \* the model argument of the constructor
    env,             \* history: what the environment did in the constructor
    last,            \* what the last method call returned or raised
    uses,            \* method calls made so far
    \* ---- LLMClient.chat_completion (llm_client.py) ----
    backend,         \* self.backend
    messages,        \* argument: the roles that carry content
    attempt,         \* the loop variable
    last_exc,        \* last_exc
    slept,           \* history: the time.sleep arguments of the call
    backend_calls,   \* history: backend requests of the call
    pc_llm,          \* "idle" | "try" | "sleep" | "returned" | "raised" | "off"
    llm_ret,         \* what chat_completion returned or raised
    chats            \* chat_completion calls made so far

chunkVars == <<text, max_chars, overlap, paragraphs, para_i, chunks,
               current_chunk, pc_chunk, chunk_seeds, chunk_paras,
               cur_seed, cur_paras>>

diskVars == <<disk_index, disk_meta>>
buildVars == <<folder, records, embs, pc_build>>

retrVars == <<libs, _client, pc, client, top_k, ret, calls, loads, searched>>

cleanVars == <<raw, cleaned, recleaned, pc_clean>>

ingestVars == <<source_id, dry_run, out_dir, pc_ingest, ingests, latest>>

clientVars == <<vc, model_arg, env, last, uses>>

llmVars == <<backend, messages, attempt, last_exc, slept, backend_calls,
             pc_llm, llm_ret, chats>>

vars == <<chunkVars, diskVars, buildVars, retrVars, cleanVars, ingestVars,
          clientVars, llmVars>>

\* the parts of the state a specification does not exercise
ChunkOff ==
    /\ text = <<>> /\ max_chars = 0 /\ overlap = 0 /\ paragraphs = <<>>
    /\ para_i = 0 /\ chunks = <<>> /\ current_chunk = <<>>
    /\ pc_chunk = "off" /\ chunk_seeds = <<>> /\ chunk_paras = <<>>
    /\ cur_seed = <<>> /\ cur_paras = <<>>

BuildOff ==
    /\ folder = <<>> /\ records = <<>> /\ embs = <<>> /\ pc_build = "off"

RetrieveOff ==
    /\ libs = <<>> /\ _client = <<>> /\ pc = <<>> /\ client = <<>>
    /\ top_k = <<>> /\ ret = <<>> /\ calls = <<>> /\ loads = 0
    /\ searched = <<>>

CleanOff ==
    /\ raw = <<>> /\ cleaned = <<>> /\ recleaned = <<>> /\ pc_clean = "off"

IngestOff ==
    /\ source_id = "" /\ dry_run = FALSE /\ out_dir = <<>>
    /\ pc_ingest = "off" /\ ingests = 0 /\ latest = <<>>

ClientOff ==
    /\ vc = <<>> /\ model_arg = <<>> /\ env = <<>> /\ last = <<>> /\ uses = 0

LLMOff ==
    /\ backend = "" /\ messages = {} /\ attempt = 0 /\ last_exc = ""
    /\ slept = <<>> /\ backend_calls = 0 /\ pc_llm = "off" /\ llm_ret = <<>>
    /\ chats = 0

(***************************************************************************)
(* Bounds of the model                                                     *)
(***************************************************************************)
MaxTextLen == 7
MaxMaxChars == 5
MaxOverlap == 4

Alphabet == {"a", " ", "\n"}
Whitespace == {" ", "\t", "\n", "\r", "\f"}

Min(a, b) == IF a < b THEN a ELSE b
Max(a, b) == IF a > b THEN a ELSE b

SeqsUpTo(S, n) == UNION {[1..k -> S] : k \in 0..n}

(***************************************************************************)
(* Python string primitives used by the chunker                            *)
(***************************************************************************)
\* str.strip()
Strip(s) ==
    LET keep == {i \in 1..Len(s) : s[i] \notin Whitespace}
    IN  IF keep = {} THEN <<>>
        ELSE SubSeq(s, CHOOSE i \in keep : \A j \in keep : i <= j,
                       CHOOSE i \in keep : \A j \in keep : i >= j)

\* s[start:] with Python's treatment of negative and out-of-range starts
PySliceFrom(s, start) ==
    LET n == Len(s)
        st == IF start < 0 THEN Max(n + start, 0) ELSE Min(start, n)
    IN  SubSeq(s, st + 1, n)

Sep == <<"\n", "\n">>

\* str.split("\n\n"): leftmost, non-overlapping separators
RECURSIVE SplitParagraphs(_)
SplitParagraphs(s) ==
    LET hits == {i \in 1..(Len(s) - 1) : s[i] = "\n" /\ s[i + 1] = "\n"}
    IN  IF hits = {} THEN <<s>>
        ELSE LET i == CHOOSE h \in hits : \A g \in hits : h <= g
             IN  <<SubSeq(s, 1, i - 1)>> \o SplitParagraphs(SubSeq(s, i + 2, Len(s)))

\* the paragraphs the loop does not skip
NonBlank(ps) == SelectSeq(ps, LAMBDA p : Strip(p) # <<>>)

(***************************************************************************)
(* chunk_text_by_paragraphs                                                *)
(***************************************************************************)
\* line 69: adding the paragraph exceeds max_chars and the chunk is non-empty
SealNeeded_AtLimit(cur, paragraph, mc) ==
    Len(cur) + Len(paragraph) + 2 >= mc /\ cur # <<>>
SealNeeded(cur, paragraph, mc) ==
    Len(cur) + Len(paragraph) + 2 > mc /\ cur # <<>>

\* line 73: current_chunk[len(current_chunk) - overlap:].strip()
OverlapText_WholeChunk(cur, ov) == Strip(cur)
OverlapText(cur, ov) == Strip(PySliceFrom(cur, Len(cur) - ov))

\* line 74
SeedChunk(overlap_text, paragraph) == overlap_text \o Sep \o paragraph

\* lines 77-80
ExtendChunk_SingleNewline(cur, paragraph) ==
    IF cur # <<>> THEN cur \o <<"\n">> \o paragraph ELSE paragraph
ExtendChunk(cur, paragraph) ==
    IF cur # <<>> THEN cur \o Sep \o paragraph ELSE paragraph

InitChunk ==
    /\ text \in SeqsUpTo(Alphabet, MaxTextLen)
    /\ max_chars \in 1..MaxMaxChars
    /\ overlap \in 0..MaxOverlap
    /\ paragraphs = <<>>
    /\ para_i = 0
    /\ chunks = <<>>
    /\ current_chunk = <<>>
    /\ pc_chunk = "begin"
    /\ chunk_seeds = <<>>
    /\ chunk_paras = <<>>
    /\ cur_seed = <<>>
    /\ cur_paras = <<>>
    /\ disk_index = [present |-> FALSE]
    /\ disk_meta = [present |-> FALSE]
    /\ BuildOff
    /\ RetrieveOff
    /\ CleanOff
    /\ IngestOff
    /\ ClientOff
    /\ LLMOff

\* lines 57-62
ChunkBegin ==
    /\ UNCHANGED <<diskVars, buildVars, retrVars, cleanVars, ingestVars, clientVars, llmVars>>
    /\ pc_chunk = "begin"
    /\ IF text = <<>>
         THEN /\ pc_chunk' = "done"
              /\ paragraphs' = paragraphs
         ELSE /\ pc_chunk' = "loop"
              /\ paragraphs' = SplitParagraphs(text)
    /\ UNCHANGED <<text, max_chars, overlap, para_i, chunks, current_chunk,
                   chunk_seeds, chunk_paras, cur_seed, cur_paras>>

\* lines 64-66
ChunkSkipBlank ==
    /\ UNCHANGED <<diskVars, buildVars, retrVars, cleanVars, ingestVars, clientVars, llmVars>>
    /\ pc_chunk = "loop"
    /\ para_i < Len(paragraphs)
    /\ Strip(paragraphs[para_i + 1]) = <<>>
    /\ para_i' = para_i + 1
    /\ UNCHANGED <<text, max_chars, overlap, paragraphs, chunks, current_chunk,
                   pc_chunk, chunk_seeds, chunk_paras, cur_seed, cur_paras>>

\* lines 69-74
ChunkSeal ==
    /\ UNCHANGED <<diskVars, buildVars, retrVars, cleanVars, ingestVars, clientVars, llmVars>>
    /\ pc_chunk = "loop"
    /\ para_i < Len(paragraphs)
    /\ LET paragraph == paragraphs[para_i + 1]
           overlap_text == OverlapText(current_chunk, overlap)
       IN  /\ Strip(paragraph) # <<>>
           /\ SealNeeded(current_chunk, paragraph, max_chars)
           /\ chunks' = Append(chunks, Strip(current_chunk))
           /\ current_chunk' = SeedChunk(overlap_text, paragraph)
           /\ chunk_seeds' = Append(chunk_seeds, cur_seed)
           /\ chunk_paras' = Append(chunk_paras, cur_paras)
           /\ cur_seed' = overlap_text
           /\ cur_paras' = <<paragraph>>
    /\ para_i' = para_i + 1
    /\ UNCHANGED <<text, max_chars, overlap, paragraphs, pc_chunk>>

\* lines 75-80
ChunkExtend ==
    /\ UNCHANGED <<diskVars, buildVars, retrVars, cleanVars, ingestVars, clientVars, llmVars>>
    /\ pc_chunk = "loop"
    /\ para_i < Len(paragraphs)
    /\ LET paragraph == paragraphs[para_i + 1]
       IN  /\ Strip(paragraph) # <<>>
           /\ ~SealNeeded(current_chunk, paragraph, max_chars)
           /\ current_chunk' = ExtendChunk(current_chunk, paragraph)
           /\ cur_paras' = Append(cur_paras, paragraph)
    /\ para_i' = para_i + 1
    /\ UNCHANGED <<text, max_chars, overlap, paragraphs, chunks, pc_chunk,
                   chunk_seeds, chunk_paras, cur_seed>>

\* lines 82-86
ChunkFinish ==
    /\ UNCHANGED <<diskVars, buildVars, retrVars, cleanVars, ingestVars, clientVars, llmVars>>
    /\ pc_chunk = "loop"
    /\ para_i = Len(paragraphs)
    /\ IF Strip(current_chunk) # <<>>
         THEN /\ chunks' = Append(chunks, Strip(current_chunk))
              /\ chunk_seeds' = Append(chunk_seeds, cur_seed)
              /\ chunk_paras' = Append(chunk_paras, cur_paras)
         ELSE UNCHANGED <<chunks, chunk_seeds, chunk_paras>>
    /\ pc_chunk' = "done"
    /\ UNCHANGED <<text, max_chars, overlap, paragraphs, para_i, current_chunk,
                   cur_seed, cur_paras>>

NextChunk ==
    \/ ChunkBegin
    \/ ChunkSkipBlank
    \/ ChunkSeal
    \/ ChunkExtend
    \/ ChunkFinish

SpecChunk == InitChunk /\ [][NextChunk]_vars

(***************************************************************************)
(* Claims about the chunker                                                *)
(***************************************************************************)
\* the last n characters of s, all of s when n >= Len(s)
TrailingChars(s, n) == SubSeq(s, Len(s) - Min(n, Len(s)) + 1, Len(s))

\* the loop is about to seal current_chunk on the next paragraph
AboutToSeal ==
    /\ pc_chunk = "loop"
    /\ para_i < Len(paragraphs)
    /\ Strip(paragraphs[para_i + 1]) # <<>>
    /\ SealNeeded(current_chunk, paragraphs[para_i + 1], max_chars)

\* C5: whenever the chunker seals the current chunk c on a paragraph p, with
\* overlap >= 0, the next chunk starts as
\* trim(trailing `overlap` characters of c) + "\n\n" + p, where the trailing
\* characters are the whole of c when overlap > len(c).
C5_SeedIsTrailingOverlap ==
    [][AboutToSeal
         => current_chunk' =
              Strip(TrailingChars(current_chunk, overlap)) \o Sep
                  \o paragraphs[para_i + 1]]_vars

\* a chunk whose only paragraph is alone longer than max_chars
SingleOversized(i) ==
    Len(chunk_paras[i]) = 1 /\ Len(chunk_paras[i][1]) > max_chars

\* C6 as stated: every returned chunk, except one holding a single oversized
\* paragraph, has length <= max_chars + overlap.
C6_SoftBound_AsStated ==
    pc_chunk = "done" =>
        \A i \in 1..Len(chunks) :
            SingleOversized(i) \/ Len(chunks[i]) <= max_chars + overlap

\* C6 (amended): for overlap >= 0, every returned chunk, except one holding a
\* single oversized paragraph, has length <= max_chars + overlap + 2: the
\* seeded prefix is followed by the two-character paragraph separator.
C6_SoftBound ==
    pc_chunk = "done" =>
        \A i \in 1..Len(chunks) :
            SingleOversized(i)
              \/ Len(chunks[i]) <= max_chars + overlap + 2

\* a returned chunk that is seeded, is not excused, and exceeds
\* max_chars + overlap
C6_Witness ==
    /\ pc_chunk = "done"
    /\ \E i \in 1..Len(chunks) :
          /\ ~SingleOversized(i)
          /\ chunk_seeds[i] # <<>>
          /\ Len(chunks[i]) = max_chars + overlap + 2

RECURSIVE Flatten(_)
Flatten(ss) == IF ss = <<>> THEN <<>> ELSE Head(ss) \o Flatten(Tail(ss))

StripEach(ps) == [i \in 1..Len(ps) |-> Strip(ps[i])]

\* the paragraphs of returned chunk i once its seeded overlap prefix is removed
OwnParagraphs(i) ==
    NonBlank(SplitParagraphs(PySliceFrom(chunks[i], Len(chunk_seeds[i]))))

\* C7: removing the seeded overlap prefix of each returned chunk and
\* concatenating reconstructs exactly the non-blank paragraphs of the text,
\* whole and in document order, up to the trimming of surrounding whitespace.
C7_Coverage ==
    pc_chunk = "done" =>
        StripEach(Flatten([i \in 1..Len(chunks) |-> OwnParagraphs(i)]))
            = StripEach(NonBlank(SplitParagraphs(text)))

\* a finished run that returned two chunks, the second seeded with overlap
C7_Witness ==
    /\ pc_chunk = "done"
    /\ Len(chunks) >= 2
    /\ chunk_seeds[2] # <<>>
    /\ Len(NonBlank(SplitParagraphs(text))) >= 2

(***************************************************************************)
(* create_embeddings.py: one run of main over an output directory that is  *)
(* empty or holds the pair an earlier, completed run wrote.                *)
(*                                                                         *)
(* A text is [body, len]: the first len characters of a named body.        *)
(* A chunk record is a dictionary, a function from its keys; a key whose   *)
(* value is None is left out of the domain (every read of a metadata       *)
(* entry is dict.get, which does not tell the two apart).                  *)
(***************************************************************************)
MaxLines == 2
MetaPreviewLen == 1200
\* embedding dimension of the default model, all-MiniLM-L6-v2
ModelDim == 384

FileNames == {1, 2}

\* text[:n]
Prefix(t, n) == [body |-> t.body, len |-> Min(t.len, n)]

Has(d, k) == k \in DOMAIN d

RecA0 == [id |-> "a_chunk_0", source_id |-> "a", title |-> "a",
          chunk_index |-> 0, text |-> [body |-> "ta0", len |-> 40]]
RecA1 == [id |-> "a_chunk_1", source_id |-> "a", title |-> "a",
          chunk_index |-> 1, text |-> [body |-> "ta1", len |-> 1500]]
RecB0 == [id |-> "b_chunk_0", source_id |-> "b", path |-> "raw/b.txt",
          chunk_index |-> 0, text |-> [body |-> "tb0", len |-> 0]]
RecNoText == [id |-> "c_chunk_0", source_id |-> "c", title |-> "c",
              chunk_index |-> 0]

BlankLine == [blank |-> TRUE]
JsonLine(rec) == [blank |-> FALSE, rec |-> rec]
LinePool == {BlankLine} \cup {JsonLine(r) : r \in {RecA0, RecA1, RecB0, RecNoText}}

\* lines 20-25: the records of one file, blank lines skipped
RECURSIVE FileRecords(_)
FileRecords(lines) ==
    IF lines = <<>> THEN <<>>
    ELSE IF Head(lines).blank THEN FileRecords(Tail(lines))
    ELSE <<Head(lines).rec>> \o FileRecords(Tail(lines))

\* lines 15-26: files in sorted name order
RECURSIVE LoadFrom(_, _)
LoadFrom(f, names) ==
    IF names = {} THEN <<>>
    ELSE LET first == CHOOSE n \in names : \A m \in names : n <= m
         IN  FileRecords(f[first]) \o LoadFrom(f, names \ {first})

load_jsonl_folder(f) == LoadFrom(f, DOMAIN f)

\* model.encode(texts): one vector per text, in order; the vector is a
\* function of the whole text
Encode(texts) == [i \in 1..Len(texts) |-> [of |-> texts[i]]]

\* lines 76-83: the metadata entry of one record
MetaEntry(rec) ==
    [k \in ({"id", "source_id", "title", "path", "chunk_index", "text"}
              \cap DOMAIN rec)
        |-> IF k = "text" THEN Prefix(rec[k], MetaPreviewLen) ELSE rec[k]]

\* lines 76-83: the list written to metadata.json
minimal_meta_SkipsEmptyText(recs) ==
    LET kept == SelectSeq(recs, LAMBDA r : r["text"].len > 0)
    IN  [i \in 1..Len(kept) |-> MetaEntry(kept[i])]
minimal_meta(recs) == [i \in 1..Len(recs) |-> MetaEntry(recs[i])]

\* what json.load makes of metadata.json: a list, an object (len(items)
\* keys), a number, or no JSON at all (an empty or cut file)
JsonList(items) == [kind |-> "list", items |-> items]
JsonObject(items) == [kind |-> "object", items |-> items]
JsonNumber == [kind |-> "number", items |-> <<>>]
JsonInvalid == [kind |-> "invalid", items |-> <<>>]

\* the files of the output directory; an index file holds a flat index of
\* dimension d, or bytes faiss.read_index cannot read
NoFile == [present |-> FALSE]
IndexFile(d, vectors) ==
    [present |-> TRUE, readable |-> TRUE, d |-> d, vectors |-> vectors]
CorruptIndexFile ==
    [present |-> TRUE, readable |-> FALSE, d |-> 0, vectors |-> <<>>]
MetaFile(json) == [present |-> TRUE, json |-> json]

\* the vectors main embeds for a list of records
EmbedRecords(recs) == Encode([i \in 1..Len(recs) |-> recs[i]["text"]])

PriorCorpora == {<<RecA0>>, <<RecB0, RecA1>>}

InitBuild ==
    /\ ChunkOff
    /\ RetrieveOff
    /\ CleanOff
    /\ IngestOff
    /\ ClientOff
    /\ LLMOff
    /\ folder \in [FileNames -> SeqsUpTo(LinePool, MaxLines)]
    /\ \/ /\ disk_index = NoFile
          /\ disk_meta = NoFile
       \/ \E prior \in PriorCorpora :
             /\ disk_index = IndexFile(ModelDim, EmbedRecords(prior))
             /\ disk_meta = MetaFile(JsonList(minimal_meta(prior)))
    /\ records = <<>>
    /\ embs = <<>>
    /\ pc_build = "start"

\* lines 59-62
BuildLoad ==
    /\ UNCHANGED <<chunkVars, retrVars, cleanVars, ingestVars, clientVars, llmVars>>
    /\ pc_build = "start"
    /\ records' = load_jsonl_folder(folder)
    /\ pc_build' = IF records' = <<>> THEN "no_records" ELSE "loaded"
    /\ UNCHANGED <<folder, disk_index, disk_meta, embs>>

\* lines 64-69; r["text"] raises KeyError for a record without text
BuildEmbed ==
    /\ UNCHANGED <<chunkVars, retrVars, cleanVars, ingestVars, clientVars, llmVars>>
    /\ pc_build = "loaded"
    /\ IF \A i \in 1..Len(records) : Has(records[i], "text")
         THEN /\ embs' = EmbedRecords(records)
              /\ pc_build' = "embedded"
         ELSE /\ embs' = embs
              /\ pc_build' = "failed"
    /\ UNCHANGED <<folder, disk_index, disk_meta, records>>

\* line 71, build_faiss_index lines 37-44: index.add(embs); write_index
BuildWriteIndex ==
    /\ UNCHANGED <<chunkVars, retrVars, cleanVars, ingestVars, clientVars, llmVars>>
    /\ pc_build = "embedded"
    /\ disk_index' = IndexFile(ModelDim, embs)
    /\ pc_build' = "index_written"
    /\ UNCHANGED <<folder, disk_meta, records, embs>>

\* line 74: open(meta_file, "w") truncates metadata.json
BuildOpenMeta ==
    /\ UNCHANGED <<chunkVars, retrVars, cleanVars, ingestVars, clientVars, llmVars>>
    /\ pc_build = "index_written"
    /\ disk_meta' = MetaFile(JsonInvalid)
    /\ pc_build' = "meta_open"
    /\ UNCHANGED <<folder, disk_index, records, embs>>

\* lines 76-85
BuildDumpMeta ==
    /\ UNCHANGED <<chunkVars, retrVars, cleanVars, ingestVars, clientVars, llmVars>>
    /\ pc_build = "meta_open"
    /\ disk_meta' = MetaFile(JsonList(minimal_meta(records)))
    /\ pc_build' = "done"
    /\ UNCHANGED <<folder, disk_index, records, embs>>

\* the run ends early on an exception (model load, faiss missing at line 34,
\* an I/O error) or the process is killed
BuildAbort ==
    /\ UNCHANGED <<chunkVars, retrVars, cleanVars, ingestVars, clientVars, llmVars>>
    /\ pc_build \in {"loaded", "embedded", "index_written", "meta_open"}
    /\ pc_build' = "failed"
    /\ UNCHANGED <<folder, disk_index, disk_meta, records, embs>>

NextBuild ==
    \/ BuildLoad
    \/ BuildEmbed
    \/ BuildWriteIndex
    \/ BuildOpenMeta
    \/ BuildDumpMeta
    \/ BuildAbort

SpecBuild == InitBuild /\ [][NextBuild]_vars

(***************************************************************************)
(* Claims about the index build                                            *)
(***************************************************************************)
\* C1: when a build run completes, metadata.json has exactly as many entries
\* as vectors were added to the index, and entry i is the projection (id,
\* source_id, title, chunk_index, first 1200 characters of text) of the record
\* whose text was embedded into vector i, in load_jsonl_folder's order.
C1_Aligned ==
    pc_build = "done" =>
        LET loaded == load_jsonl_folder(folder)
            entries == disk_meta.json.items
            vectors == disk_index.vectors
        IN  /\ disk_meta.json.kind = "list"
            /\ Len(entries) = Len(vectors)
            /\ Len(vectors) = Len(loaded)
            /\ \A i \in 1..Len(loaded) :
                  /\ vectors[i].of = loaded[i]["text"]
                  /\ entries[i]["text"].body = loaded[i]["text"].body
                  /\ entries[i]["text"].len = Min(loaded[i]["text"].len, 1200)
                  /\ \A k \in {"id", "source_id", "title", "chunk_index"} :
                        /\ Has(entries[i], k) = Has(loaded[i], k)
                        /\ Has(loaded[i], k) => entries[i][k] = loaded[i][k]

\* a completed run over at least two records, one with a text longer than the
\* stored preview, one with an empty text, one of them after a blank line
C1_Witness ==
    /\ pc_build = "done"
    /\ Len(records) >= 2
    /\ \E i \in 1..Len(records) : records[i]["text"].len > 1200
    /\ \E i \in 1..Len(records) : records[i]["text"].len = 0
    /\ \E n \in FileNames : Len(folder[n]) > Len(FileRecords(folder[n]))

\* C4: at every point during a build run, and after a run that fails
\* partway, index.faiss and metadata.json, when both are on disk, belong to
\* the same build: metadata.json is whole and its entry i describes the text
\* embedded into vector i.
C4_PairAtomic ==
    (disk_index.present /\ disk_meta.present) =>
        /\ disk_meta.json.kind = "list"
        /\ Len(disk_meta.json.items) = Len(disk_index.vectors)
        /\ \A i \in 1..Len(disk_meta.json.items) :
              disk_meta.json.items[i]["text"]
                  = Prefix(disk_index.vectors[i].of, 1200)

(***************************************************************************)
(* vector_client.py and retrieval_agent.py: threads of one process call    *)
(* retrieve over an index directory that does not change.                  *)
(*                                                                         *)
(* An exception is [body, len]: what it is about and the length of its     *)
(* message. An operation that can raise yields [ok, val, err].             *)
(***************************************************************************)
MaxCalls == 2
MaxTopK == 2
MaxCorpus == 2

ExcerptLen == 800
MaxFeatures == 1024

\* lengths of the messages the code builds
LenNotFoundMsg == 118
LenNoFaissMsg == 162
LenNoLenMsg == 33
LenLoadIndexPrefix == 28
LenNoFallbackMsg == 77
LenNoEmbedderMsg == 162
LenFaissSearchPrefix == 21
LenGetClientPrefix == 129
LenInitFailedPrefix == 36
LenSearchFailedPrefix == 22

\* lengths of the messages of exceptions raised inside json.load,
\* faiss.read_index and TfidfVectorizer.fit, and inside model.encode
InitMsgLens == {41, 200}
EncodeMsgLens == {41, 900}

Threads == {1, 2}

Exc(body, len) == [body |-> body, len |-> len]
NoExc == Exc("", 0)
Ok(v) == [ok |-> TRUE, val |-> v, err |-> NoExc]
Raise(e) == [ok |-> FALSE, val |-> <<>>, err |-> e]

NoClient == [constructed |-> FALSE]

\* what the environment decides during one construction: whether
\* SentenceTransformer(model_name) loads, the size of the fitted TF-IDF
\* vocabulary, whether TfidfVectorizer.fit raises, and the length of a
\* library's error message
EnvChoices ==
    [sbert_loads : BOOLEAN, vocab : {3, MaxFeatures}, fit_raises : BOOLEAN,
     lib_len : InitMsgLens]

\* _init_tfidf, lines 109-123: the texts the vectorizer is fitted on
TfidfTexts(metadata) ==
    [i \in 1..Len(metadata.items) |->
        IF metadata.kind = "list" /\ Has(metadata.items[i], "text")
          THEN metadata.items[i]["text"]
          ELSE [body |-> "", len |-> 0]]

\* _init_tfidf, lines 109-123; TfidfVectorizer.fit raises ValueError on an
\* empty vocabulary: always when no text has a character, possibly when the
\* texts hold no token
InitTfidf(self, ch) ==
    IF ch.fit_raises \/ \A i \in 1..Len(self.metadata.items) :
                            TfidfTexts(self.metadata)[i].len = 0
      THEN Raise(Exc("ValueError: empty vocabulary", ch.lib_len))
      ELSE Ok([constructed |-> TRUE, metadata |-> self.metadata,
               index |-> self.index, mode |-> "tfidf", dim |-> ch.vocab,
               fits |-> 1])

\* the model argument of VectorClient: None, or an object with encode()
NoModel == [given |-> FALSE]
InjectedModel(d) == [given |-> TRUE, dim |-> d]

\* VectorClient.__init__, lines 47-107 (use_chroma_fallback=False); fits
\* counts the calls of TfidfVectorizer.fit on the client's vectorizer
VectorClientInit_PrefersTfidf(index_file, meta_file, model, lib, ch) ==
    IF ~index_file.present \/ ~meta_file.present
      THEN Raise(Exc("FileNotFoundError", LenNotFoundMsg))
    ELSE IF ~lib.faiss
      THEN Raise(Exc("RuntimeError: faiss not available", LenNoFaissMsg))
    ELSE IF meta_file.json.kind = "invalid"
      THEN Raise(Exc("JSONDecodeError", ch.lib_len))
    ELSE IF meta_file.json.kind = "number"
      THEN Raise(Exc("TypeError: no len()", LenNoLenMsg))
    ELSE IF ~index_file.readable
      THEN Raise(Exc("RuntimeError: Failed to load FAISS index",
                     LenLoadIndexPrefix + ch.lib_len))
    ELSE LET self == [metadata |-> meta_file.json,
                      index |-> [d |-> index_file.d,
                                 ntotal |-> Len(index_file.vectors)]]
         IN  IF model.given
               THEN Ok([constructed |-> TRUE, metadata |-> self.metadata,
                        index |-> self.index, mode |-> "injected",
                        dim |-> model.dim, fits |-> 0])
             ELSE IF lib.tfidf THEN InitTfidf(self, ch)
             ELSE IF lib.sbert /\ ch.sbert_loads
               THEN Ok([constructed |-> TRUE, metadata |-> self.metadata,
                        index |-> self.index, mode |-> "sbert",
                        dim |-> ModelDim, fits |-> 0])
             ELSE IF lib.sbert
               THEN Raise(Exc("RuntimeError: no TF-IDF fallback", LenNoFallbackMsg))
             ELSE Raise(Exc("RuntimeError: no embedder", LenNoEmbedderMsg))
VectorClientInit(index_file, meta_file, model, lib, ch) ==
    IF ~index_file.present \/ ~meta_file.present
      THEN Raise(Exc("FileNotFoundError", LenNotFoundMsg))
    ELSE IF ~lib.faiss
      THEN Raise(Exc("RuntimeError: faiss not available", LenNoFaissMsg))
    ELSE IF meta_file.json.kind = "invalid"
      THEN Raise(Exc("JSONDecodeError", ch.lib_len))
    ELSE IF meta_file.json.kind = "number"
      THEN Raise(Exc("TypeError: no len()", LenNoLenMsg))
    ELSE IF ~index_file.readable
      THEN Raise(Exc("RuntimeError: Failed to load FAISS index",
                     LenLoadIndexPrefix + ch.lib_len))
    ELSE LET self == [metadata |-> meta_file.json,
                      index |-> [d |-> index_file.d,
                                 ntotal |-> Len(index_file.vectors)]]
         IN  IF model.given
               THEN Ok([constructed |-> TRUE, metadata |-> self.metadata,
                        index |-> self.index, mode |-> "injected",
                        dim |-> model.dim, fits |-> 0])
             ELSE IF lib.sbert /\ ch.sbert_loads
               THEN Ok([constructed |-> TRUE, metadata |-> self.metadata,
                        index |-> self.index, mode |-> "sbert",
                        dim |-> ModelDim, fits |-> 0])
             ELSE IF lib.tfidf THEN InitTfidf(self, ch)
             ELSE IF lib.sbert
               THEN Raise(Exc("RuntimeError: no TF-IDF fallback", LenNoFallbackMsg))
             ELSE Raise(Exc("RuntimeError: no embedder", LenNoEmbedderMsg))

\* VectorClient(index_dir=..., model_name=...), lines 23-27: every way one
\* construction by get_client can end
ConstructOutcomes(index_file, meta_file, lib) ==
    {VectorClientInit(index_file, meta_file, NoModel, lib, ch) :
        ch \in EnvChoices}

\* get_client, lines 29-35: any failure is re-raised as a RuntimeError whose
\* message ends with the original one
GetClientError(e) == Exc(e.body, LenGetClientPrefix + e.len)

\* index.search(qv, k) of a flat index with n vectors: k slots, the best
\* min(n, k) positions in an order the query decides, then -1 padding;
\* scores fall along the slots
IndexSearch(n, k) ==
    LET m == Min(n, k)
        orders == {o \in [1..m -> 0..(n - 1)] :
                      \A i, j \in 1..m : i # j => o[i] # o[j]}
    IN  {[j \in 1..k |-> [score |-> k - j,
                          idx |-> IF j <= m THEN o[j] ELSE -1]] : o \in orders}

\* search, lines 190-203: one result record
SearchResult(score, meta) ==
    [f \in ({"id", "source_id", "title", "path", "chunk_index"} \cap DOMAIN meta)
             \cup {"score", "excerpt"}
        |-> IF f = "score" THEN score
            ELSE IF f = "excerpt"
              THEN IF Has(meta, "text") THEN Prefix(meta["text"], ExcerptLen)
                   ELSE [body |-> "", len |-> 0]
            ELSE meta[f]]

\* search, lines 182-204: a hit is kept when its position is in range
HitKept_DropsLast(metadata, hit) ==
    hit.idx >= 0 /\ hit.idx < Len(metadata.items) - 1
HitKept(metadata, hit) == hit.idx >= 0 /\ hit.idx < Len(metadata.items)

\* search, lines 182-204: indexing a dict with a position raises KeyError
JoinHits(metadata, hits) ==
    LET kept == SelectSeq(hits, LAMBDA h : HitKept(metadata, h))
    IN  IF kept # <<>> /\ metadata.kind # "list"
          THEN Raise(Exc("KeyError", 1))
          ELSE Ok([i \in 1..Len(kept) |->
                     SearchResult(kept[i].score, metadata.items[kept[i].idx + 1])])

\* search, lines 175-176
ClampK_Unclamped(k) == k
ClampK(k) == IF k <= 0 THEN 1 ELSE k

\* one run of VectorClient.search: how it ended, and the index.search call
\* it made, if it came to it
SearchRun(out, index_calls) == [out |-> out, index_calls |-> index_calls]
IndexCall(asked, k, hits) == [asked |-> asked, k |-> k, hits |-> hits]

\* VectorClient.search, lines 170-204: every way one call can run.
\* embed_query may raise before the index is reached; index.search raises
\* on a query vector of another dimension and on k < 1
SearchRuns(self, k) ==
    LET kk == ClampK(k)
    IN  {SearchRun(Raise(Exc("encode", L)), <<>>) : L \in EncodeMsgLens}
        \cup
        (IF self.dim # self.index.d \/ kk < 1
           THEN {SearchRun(Raise(Exc("RuntimeError: FAISS search failed",
                                     LenFaissSearchPrefix)),
                           <<IndexCall(k, kk, <<>>)>>)}
           ELSE {SearchRun(JoinHits(self.metadata, hits),
                           <<IndexCall(k, kk, hits)>>) :
                    hits \in IndexSearch(self.index.ntotal, kk)})

\* VectorClient.search, lines 170-204: every way one call can end
SearchOutcomes(self, k) == {run.out : run \in SearchRuns(self, k)}

\* retrieve, lines 46-55 and 59-68: the synthetic error record
ErrorRecord(excerpt) == [score |-> 0, title |-> "ERROR", excerpt |-> excerpt]

Returned(value) == [status |-> "returned", value |-> value]
Raised == [status |-> "raised", value |-> <<>>]
NotCalled == [status |-> "none", value |-> <<>>, failed |-> "none", err |-> NoExc]

\* retrieve, lines 44-55
RetrieveOnInitFailure(e) ==
    Returned(<<ErrorRecord(Exc(e.body, LenInitFailedPrefix + e.len))>>)

\* retrieve, lines 57-68
RetrieveOnSearchFailure_Propagates(e) == Raised
RetrieveOnSearchFailure(e) ==
    Returned(<<ErrorRecord(Exc(e.body, LenSearchFailedPrefix + e.len))>>)

\* retrieve, lines 70-81
RetrieveOnResults(results) ==
    Returned([i \in 1..Len(results) |->
                [f \in DOMAIN results[i] \ {"id"} |-> results[i][f]]])

\* retrieve, lines 57-81: what retrieve returns after client.search ended
RetrieveAfterSearch(out) ==
    IF out.ok THEN RetrieveOnResults(out.val)
    ELSE RetrieveOnSearchFailure(out.err)

\* what a call did, with the failure it met (history)
Outcome(r, failed, e) ==
    [status |-> r.status, value |-> r.value, failed |-> failed, err |-> e]

\* the index directories retrieve may find
CorpusOfLen(n) == [i \in 1..n |-> IF i % 2 = 1 THEN RecA1 ELSE RecB0]
IndexFiles ==
    {NoFile, CorruptIndexFile}
    \cup {IndexFile(d, EmbedRecords(CorpusOfLen(n))) :
             d \in {ModelDim, MaxFeatures}, n \in 1..MaxCorpus}
MetaFiles ==
    {NoFile, MetaFile(JsonInvalid), MetaFile(JsonNumber)}
    \cup {MetaFile(JsonList(minimal_meta(CorpusOfLen(n)))) : n \in 0..MaxCorpus}
    \cup {MetaFile(JsonObject(minimal_meta(CorpusOfLen(n)))) : n \in 0..MaxCorpus}

\* the top_k arguments retrieve is called with: negative, zero, positive
TopKs == {-1} \cup 0..MaxTopK

InitRetrieve ==
    /\ ChunkOff
    /\ BuildOff
    /\ disk_index \in IndexFiles
    /\ disk_meta \in MetaFiles
    /\ libs \in [faiss : BOOLEAN, sbert : BOOLEAN, tfidf : BOOLEAN]
    /\ _client = NoClient
    /\ pc = [t \in Threads |-> "idle"]
    /\ client = [t \in Threads |-> NoClient]
    /\ top_k = [t \in Threads |-> 0]
    /\ ret = [t \in Threads |-> NotCalled]
    /\ calls = 0
    /\ loads = 0
    /\ searched = [t \in Threads |-> <<>>]
    /\ CleanOff
    /\ IngestOff
    /\ ClientOff
    /\ LLMOff

\* retrieve(query, top_k) is called, line 40, as one of at most cap calls
CallWithin(t, k, cap) ==
    /\ UNCHANGED <<chunkVars, diskVars, buildVars, cleanVars,
                   ingestVars, clientVars, llmVars>>
    /\ pc[t] = "idle"
    /\ calls < cap
    /\ pc' = [pc EXCEPT ![t] = "get_client"]
    /\ top_k' = [top_k EXCEPT ![t] = k]
    /\ calls' = calls + 1
    /\ ret' = [ret EXCEPT ![t] = NotCalled]
    /\ searched' = [searched EXCEPT ![t] = <<>>]
    /\ UNCHANGED <<libs, _client, client, loads>>

\* retrieve(query, top_k) is called, whatever the other thread is doing
Call(t, k) == CallWithin(t, k, MaxCalls)

\* get_client, lines 18-19: the cached client is returned
GetClientCached(t) ==
    /\ UNCHANGED <<chunkVars, diskVars, buildVars, cleanVars,
                   ingestVars, clientVars, llmVars>>
    /\ pc[t] = "get_client"
    /\ _client.constructed
    /\ client' = [client EXCEPT ![t] = _client]
    /\ pc' = [pc EXCEPT ![t] = "search"]
    /\ UNCHANGED <<libs, _client, top_k, ret, calls, loads, searched>>

\* get_client, lines 18-23: _client is None, construction starts
GetClientBegin(t) ==
    /\ UNCHANGED <<chunkVars, diskVars, buildVars, cleanVars,
                   ingestVars, clientVars, llmVars>>
    /\ pc[t] = "get_client"
    /\ ~_client.constructed
    /\ pc' = [pc EXCEPT ![t] = "constructing"]
    /\ UNCHANGED <<libs, _client, client, top_k, ret, calls, loads, searched>>

\* get_client, lines 23-28 and 37: the construction succeeds
ConstructOk_NotCached(t) ==
    /\ UNCHANGED <<chunkVars, diskVars, buildVars, cleanVars,
                   ingestVars, clientVars, llmVars>>
    /\ pc[t] = "constructing"
    /\ \E made \in ConstructOutcomes(disk_index, disk_meta, libs) :
          /\ made.ok
          /\ client' = [client EXCEPT ![t] = made.val]
    /\ loads' = loads + 1
    /\ pc' = [pc EXCEPT ![t] = "search"]
    /\ UNCHANGED <<libs, _client, top_k, ret, calls, searched>>
ConstructOk(t) ==
    /\ UNCHANGED <<chunkVars, diskVars, buildVars, cleanVars,
                   ingestVars, clientVars, llmVars>>
    /\ pc[t] = "constructing"
    /\ \E made \in ConstructOutcomes(disk_index, disk_meta, libs) :
          /\ made.ok
          /\ _client' = made.val
          /\ client' = [client EXCEPT ![t] = made.val]
    /\ loads' = loads + 1
    /\ pc' = [pc EXCEPT ![t] = "search"]
    /\ UNCHANGED <<libs, top_k, ret, calls, searched>>

\* get_client, lines 29-35, retrieve, lines 46-55: the construction raises
ConstructFail(t) ==
    /\ UNCHANGED <<chunkVars, diskVars, buildVars, cleanVars,
                   ingestVars, clientVars, llmVars>>
    /\ pc[t] = "constructing"
    /\ \E made \in ConstructOutcomes(disk_index, disk_meta, libs) :
          LET e == GetClientError(made.err)
          IN  /\ ~made.ok
              /\ ret' = [ret EXCEPT ![t] =
                           Outcome(RetrieveOnInitFailure(e), "init", e)]
    /\ pc' = [pc EXCEPT ![t] = "idle"]
    /\ client' = [client EXCEPT ![t] = NoClient]
    /\ top_k' = [top_k EXCEPT ![t] = 0]
    /\ UNCHANGED <<libs, _client, calls, loads, searched>>

\* retrieve, lines 57-58 and 70-81: the search returns
SearchOk(t) ==
    /\ UNCHANGED <<chunkVars, diskVars, buildVars, cleanVars,
                   ingestVars, clientVars, llmVars>>
    /\ pc[t] = "search"
    /\ \E run \in SearchRuns(client[t], top_k[t]) :
          /\ run.out.ok
          /\ ret' = [ret EXCEPT ![t] =
                       Outcome(RetrieveOnResults(run.out.val), "none", NoExc)]
          /\ searched' = [searched EXCEPT ![t] = run.index_calls]
    /\ pc' = [pc EXCEPT ![t] = "idle"]
    /\ client' = [client EXCEPT ![t] = NoClient]
    /\ top_k' = [top_k EXCEPT ![t] = 0]
    /\ UNCHANGED <<libs, _client, calls, loads>>

\* retrieve, lines 57-68: the search raises
SearchFail(t) ==
    /\ UNCHANGED <<chunkVars, diskVars, buildVars, cleanVars,
                   ingestVars, clientVars, llmVars>>
    /\ pc[t] = "search"
    /\ \E run \in SearchRuns(client[t], top_k[t]) :
          /\ ~run.out.ok
          /\ ret' = [ret EXCEPT ![t] =
                       Outcome(RetrieveOnSearchFailure(run.out.err), "search",
                               run.out.err)]
          /\ searched' = [searched EXCEPT ![t] = run.index_calls]
    /\ pc' = [pc EXCEPT ![t] = "idle"]
    /\ client' = [client EXCEPT ![t] = NoClient]
    /\ top_k' = [top_k EXCEPT ![t] = 0]
    /\ UNCHANGED <<libs, _client, calls, loads>>

NextRetrieve ==
    \E t \in Threads :
        \/ \E k \in TopKs : Call(t, k)
        \/ GetClientCached(t)
        \/ GetClientBegin(t)
        \/ ConstructOk(t)
        \/ ConstructFail(t)
        \/ SearchOk(t)
        \/ SearchFail(t)

SpecRetrieve == InitRetrieve /\ [][NextRetrieve]_vars

(***************************************************************************)
(* Claims about retrieve and the VectorClient                              *)
(***************************************************************************)
\* C2: retrieve never raises, and a call whose VectorClient construction
\* failed, or whose client.search raised, returns a list of exactly one
\* record with title "ERROR", score 0, null source_id, path and chunk_index,
\* and an excerpt that carries the error message.
C2_NeverRaises ==
    \A t \in Threads :
        /\ ret[t].status # "raised"
        /\ ret[t].failed # "none" =>
              /\ ret[t].status = "returned"
              /\ Len(ret[t].value) = 1
              /\ LET r == ret[t].value[1]
                 IN  /\ r["title"] = "ERROR"
                     /\ r["score"] = 0
                     /\ ~Has(r, "source_id")
                     /\ ~Has(r, "path")
                     /\ ~Has(r, "chunk_index")
                     /\ r["excerpt"].body = ret[t].err.body
                     /\ r["excerpt"].len >= ret[t].err.len

\* one call has returned after a failed construction and another after a
\* search that raised on a constructed client
C2_Witness ==
    \E t, u \in Threads :
        /\ ret[t].failed = "search" /\ _client.constructed
        /\ ret[u].failed = "init" /\ ret[u].status = "returned"

\* C3: under any interleaving of concurrent first calls, the VectorClient is
\* constructed at most once (no duplicate model load).
C3_SingleInit == loads <= 1

\* C8: a VectorClient exists only over an index directory that holds both
\* files, and its metadata is a list.
C8_FailFast ==
    _client.constructed =>
        /\ disk_index.present
        /\ disk_meta.present
        /\ _client.metadata.kind = "list"

\* C9: a VectorClient exists only when the dimension of its embedder's
\* vectors is the dimension of the loaded index, so no search runs with a
\* query vector of another dimension.
C9_DimsAgree ==
    /\ _client.constructed => _client.dim = _client.index.d
    /\ \A t \in Threads :
          pc[t] = "search" => client[t].dim = client[t].index.d

\* C10: every record of every list retrieve returns, the synthetic error
\* record included, has an excerpt of at most 800 characters.
C10_ExcerptBounded ==
    \A t \in Threads :
        \A i \in 1..Len(ret[t].value) : ret[t].value[i]["excerpt"].len <= 800

\* C11: for every k <= 0, search(query, k) ends in the ways search(query, 1)
\* ends, retrieve(query, top_k) with top_k <= 0 returns a list that
\* retrieve(query, 1) returns, and index.search is never called with k < 1.
C11_NonPositiveKIsOne ==
    [][/\ \A t \in Threads :
             (pc[t] = "search" /\ top_k[t] <= 0) =>
                /\ SearchOutcomes(client[t], top_k[t])
                      = SearchOutcomes(client[t], 1)
                /\ pc'[t] = "idle" =>
                      [status |-> ret'[t].status, value |-> ret'[t].value]
                        \in {RetrieveAfterSearch(out) :
                                out \in SearchOutcomes(client[t], 1)}
       /\ \A t \in Threads :
             \A i \in 1..Len(searched'[t]) : searched'[t][i].k >= 1]_vars

\* a call with top_k <= 0 has returned the single best hit
C11_Witness ==
    \E t \in Threads :
        /\ ret[t].status = "returned" /\ ret[t].failed = "none"
        /\ Len(ret[t].value) = 1
        /\ searched[t] # <<>> /\ searched[t][1].asked <= 0
        /\ searched[t][1].k = 1

\* the hits of an index.search return whose position p has
\* 0 <= p < len(metadata), in the order the index returned them
InRangeHits(metadata, hits) ==
    SelectSeq(hits, LAMBDA h : 0 <= h.idx /\ h.idx < Len(metadata.items))

\* record r is hit h joined to metadata entry m, as retrieve passes it on
JoinedTo(r, h, m) ==
    /\ r["score"] = h.score
    /\ \A f \in {"source_id", "title", "path", "chunk_index"} :
          /\ Has(r, f) <=> Has(m, f)
          /\ Has(r, f) => r[f] = m[f]
    /\ r["excerpt"] = IF Has(m, "text") THEN Prefix(m["text"], ExcerptLen)
                      ELSE [body |-> "", len |-> 0]

\* thread t's search step ends after index.search returned hits
IndexReturned(t) ==
    /\ pc[t] = "search" /\ pc'[t] = "idle"
    /\ searched'[t] # <<>> /\ searched'[t][1].hits # <<>>

\* the call of thread t returned exactly the in-range hits, joined, in order
ReturnedInRangeHits(t) ==
    LET call == searched'[t][1]
        kept == InRangeHits(client[t].metadata, call.hits)
        out  == ret'[t]
    IN  /\ out.status = "returned" /\ out.failed = "none"
        /\ Len(out.value) = Len(kept)
        /\ Len(out.value) <= Max(call.asked, 1)
        /\ \A i \in 1..Len(kept) :
              JoinedTo(out.value[i], kept[i],
                       client[t].metadata.items[kept[i].idx + 1])

JoinInRange_AnyMetadata ==
    [][\A t \in Threads : IndexReturned(t) => ReturnedInRangeHits(t)]_vars

MaxTokens == 5
SmallMaxChars == 4
DefaultMaxChars == 2048
DefaultOverlap == 150

\* the characters of the regular expressions' class [ \t]
HSpace == {" ", "\t"}

\* the characters of s at the positions in keep, in order
Pick(s, keep) ==
    LET idx == SelectSeq([i \in 1..Len(s) |-> i], LAMBDA i : i \in keep)
    IN  [j \in 1..Len(idx) |-> s[idx[j]]]

\* line 46: text.replace("\r\n", "\n"), leftmost non-overlapping
RECURSIVE ReplaceCrLf(_)
ReplaceCrLf(s) ==
    IF s = <<>> THEN <<>>
    ELSE IF Len(s) >= 2 /\ s[1] = "\r" /\ s[2] = "\n"
      THEN <<"\n">> \o ReplaceCrLf(SubSeq(s, 3, Len(s)))
    ELSE <<s[1]>> \o ReplaceCrLf(Tail(s))

\* line 46: .replace("\r", "\n")
ReplaceCr(s) == [i \in 1..Len(s) |-> IF s[i] = "\r" THEN "\n" ELSE s[i]]

\* line 47: re.sub(r"[ \t]+\n", "\n", text): the blanks of a run of spaces
\* and tabs that ends at a newline are removed
SubBlanksBeforeNewline(s) ==
    Pick(s, {i \in 1..Len(s) :
                ~(/\ s[i] \in HSpace
                  /\ \E j \in (i + 1)..Len(s) :
                        /\ s[j] = "\n"
                        /\ \A m \in i..(j - 1) : s[m] \in HSpace)})

\* line 48: re.sub(r"\n{3,}", "\n\n", text): the third and later newlines of
\* a run are removed
SubNewlineRuns(s) ==
    Pick(s, {i \in 1..Len(s) :
                ~(s[i] = "\n" /\ i >= 3 /\ s[i - 1] = "\n" /\ s[i - 2] = "\n")})

\* line 49: re.sub(r"[ \t]{2,}", " ", text): a run of two or more spaces and
\* tabs becomes one space
SubBlankRuns(s) ==
    LET t == [i \in 1..Len(s) |->
                IF s[i] \in HSpace /\ i < Len(s) /\ s[i + 1] \in HSpace
                  THEN " " ELSE s[i]]
    IN  Pick(t, {i \in 1..Len(s) :
                    ~(s[i] \in HSpace /\ i > 1 /\ s[i - 1] \in HSpace)})

\* clean_text, lines 42-50
clean_text_CollapsesNewlinesFirst(txt) ==
    IF txt = <<>> THEN <<>>
    ELSE Strip(SubBlankRuns(SubBlanksBeforeNewline(SubNewlineRuns(
                 ReplaceCr(ReplaceCrLf(txt))))))
clean_text(txt) ==
    IF txt = <<>> THEN <<>>
    ELSE Strip(SubBlankRuns(SubNewlineRuns(SubBlanksBeforeNewline(
                 ReplaceCr(ReplaceCrLf(txt))))))

\* the texts clean_text is given: up to MaxTokens pieces, each a character
\* or a paragraph break
Tokens == {<<"a">>, <<" ">>, <<"\t">>, <<"\n">>, <<"\r">>, <<"\f">>, Sep}
RawTexts == {Flatten(ts) : ts \in SeqsUpTo(Tokens, MaxTokens)}

InitNormalize ==
    /\ raw \in RawTexts
    /\ cleaned = <<>>
    /\ recleaned = <<>>
    /\ pc_clean = "raw"
    /\ ChunkOff
    /\ disk_index = [present |-> FALSE]
    /\ disk_meta = [present |-> FALSE]
    /\ BuildOff
    /\ RetrieveOff
    /\ IngestOff
    /\ ClientOff
    /\ LLMOff

\* text = clean_text(text), line 102
Clean ==
    /\ pc_clean = "raw"
    /\ cleaned' = clean_text(raw)
    /\ pc_clean' = "cleaned"
    /\ UNCHANGED <<raw, recleaned>>
    /\ UNCHANGED <<chunkVars, diskVars, buildVars, retrVars, ingestVars, clientVars, llmVars>>

\* clean_text applied to its own output
CleanAgain ==
    /\ pc_clean = "cleaned"
    /\ recleaned' = clean_text(cleaned)
    /\ pc_clean' = "recleaned"
    /\ UNCHANGED <<raw, cleaned>>
    /\ UNCHANGED <<chunkVars, diskVars, buildVars, retrVars, ingestVars, clientVars, llmVars>>

\* chunk_text_by_paragraphs(text, max_chars=mc, overlap=ov) is entered with
\* the cleaned text, line 103
ChunkCleaned(mc, ov) ==
    /\ pc_clean = "recleaned"
    /\ pc_clean' = "chunking"
    /\ text' = cleaned
    /\ max_chars' = mc
    /\ overlap' = ov
    /\ pc_chunk' = "begin"
    /\ UNCHANGED <<paragraphs, para_i, chunks, current_chunk, chunk_seeds,
                   chunk_paras, cur_seed, cur_paras>>
    /\ UNCHANGED <<raw, cleaned, recleaned>>
    /\ UNCHANGED <<diskVars, buildVars, retrVars, ingestVars, clientVars, llmVars>>

NextNormalize ==
    \/ Clean
    \/ CleanAgain
    \/ \E mc \in {SmallMaxChars, DefaultMaxChars} :
          \E ov \in {0, DefaultOverlap} : ChunkCleaned(mc, ov)
    \/ ChunkBegin
    \/ ChunkSkipBlank
    \/ ChunkSeal
    \/ ChunkExtend
    \/ ChunkFinish

SpecNormalize == InitNormalize /\ [][NextNormalize]_vars

(***************************************************************************)
(* Claims about clean_text                                                 *)
(***************************************************************************)
\* s holds t as a run of consecutive characters
HasRun(s, t) ==
    \E i \in 1..(Len(s) - Len(t) + 1) : SubSeq(s, i, i + Len(t) - 1) = t

\* C13: clean_text(clean_text(s)) = clean_text(s), and clean_text(s) has no
\* run of three newlines, no space or tab right before a newline, no two
\* adjacent spaces or tabs, and no whitespace at either end.
C13_Idempotent ==
    /\ pc_clean \in {"cleaned", "recleaned", "chunking"} =>
          /\ ~HasRun(cleaned, <<"\n", "\n", "\n">>)
          /\ \A i \in 1..(Len(cleaned) - 1) :
                /\ ~(cleaned[i] \in HSpace /\ cleaned[i + 1] = "\n")
                /\ ~(cleaned[i] \in HSpace /\ cleaned[i + 1] \in HSpace)
          /\ cleaned # <<>> =>
                /\ cleaned[1] \notin Whitespace
                /\ cleaned[Len(cleaned)] \notin Whitespace
    /\ pc_clean \in {"recleaned", "chunking"} => recleaned = cleaned

\* clean_text ran twice on a text whose blanks before a newline, once
\* removed, left a run of three newlines to collapse
C13_Witness ==
    /\ pc_clean = "recleaned"
    /\ recleaned = cleaned
    /\ cleaned # <<>>
    /\ HasRun(raw, <<" ", "\n">>)
    /\ HasRun(SubBlanksBeforeNewline(ReplaceCr(ReplaceCrLf(raw))),
              <<"\n", "\n", "\n">>)
    /\ Len(cleaned) >= 3

\* "\n\n".join(ps)
RECURSIVE JoinParagraphs(_)
JoinParagraphs(ps) ==
    IF ps = <<>> THEN <<>>
    ELSE IF Len(ps) = 1 THEN ps[1]
    ELSE ps[1] \o Sep \o JoinParagraphs(Tail(ps))

\* the chunker has returned for a non-empty cleaned text no longer than
\* max_chars
ChunkedWithinLimit ==
    /\ pc_clean = "chunking" /\ pc_chunk = "done"
    /\ text = cleaned
    /\ text # <<>>
    /\ Len(text) <= max_chars

\* C17 as stated: a non-empty cleaned text no longer than max_chars is
\* returned as exactly one chunk, equal to the whole text, for every overlap.
C17_SingleChunk_AsStated == ChunkedWithinLimit => chunks = <<text>>

\* C17: a non-empty cleaned text no longer than max_chars is returned as
\* exactly one chunk, for every overlap: its paragraphs that are not
\* whitespace-only, joined by paragraph breaks; that is the whole text when
\* no paragraph is whitespace-only.
C17_SingleChunk ==
    ChunkedWithinLimit =>
        /\ chunks = <<JoinParagraphs(NonBlank(SplitParagraphs(text)))>>
        /\ NonBlank(SplitParagraphs(text)) = SplitParagraphs(text)
              => chunks = <<text>>

\* three paragraphs under the limit came back as one chunk, the whole text
C17_Witness ==
    /\ ChunkedWithinLimit
    /\ Len(SplitParagraphs(text)) = 3
    /\ chunks = <<text>>
    /\ overlap = DefaultOverlap
    /\ max_chars = DefaultMaxChars

(***************************************************************************)
(* clean_and_chunk.py: process_file, called again and again with files of  *)
(* a few stems and one output directory.                                   *)
(***************************************************************************)
MaxIngests == 3

\* path.stem of the files processed
Stems == {"a", "a_chunk_0"}

\* what load_text returns for them: nothing, blanks only, one paragraph,
\* two paragraphs with blanks to clean, three paragraphs and a form feed
Docs ==
    { <<>>,
      <<" ", "\n">>,
      <<"a">>,
      <<"a", " ", " ", "a", "\r", "\n", "\n", "a">>,
      <<"a", "\n", "\n", "\f", "\n", "\n", "a", "\n", "\n", "a">> }

\* lines 120-126: the record of chunk i (0-based) with stripped text c
ChunkRecord_WithPath(stem, i, c) ==
    [id |-> stem \o "_chunk_" \o ToString(i), source_id |-> stem,
     title |-> stem, path |-> stem \o ".txt", chunk_index |-> i, text |-> c]
ChunkRecord(stem, i, c) ==
    [id |-> stem \o "_chunk_" \o ToString(i), source_id |-> stem,
     title |-> stem, chunk_index |-> i, text |-> c]

\* lines 113-129: the records written, one line each, for
\* enumerate(chunks); a chunk that is empty once stripped is skipped
ProcessFileRecords_FromOne(stem, cs) ==
    LET idx == SelectSeq([i \in 1..Len(cs) |-> i],
                         LAMBDA i : Strip(cs[i]) # <<>>)
    IN  [j \in 1..Len(idx) |-> ChunkRecord(stem, idx[j], Strip(cs[idx[j]]))]
ProcessFileRecords(stem, cs) ==
    LET idx == SelectSeq([i \in 1..Len(cs) |-> i],
                         LAMBDA i : Strip(cs[i]) # <<>>)
    IN  [j \in 1..Len(idx) |->
            ChunkRecord(stem, idx[j] - 1, Strip(cs[idx[j]]))]

\* <source_id>.jsonl in out_dir
JsonlFile(recs) == [present |-> TRUE, records |-> recs]

\* history: the chunks of the latest processing of a stem
NeverProcessed == [called |-> FALSE, chunks |-> <<>>]
Processed(cs) == [called |-> TRUE, chunks |-> cs]

InitIngest ==
    /\ source_id = ""
    /\ dry_run = FALSE
    /\ out_dir = [stem \in Stems |-> NoFile]
    /\ pc_ingest = "idle"
    /\ ingests = 0
    /\ latest = [stem \in Stems |-> NeverProcessed]
    /\ ChunkOff
    /\ CleanOff
    /\ disk_index = [present |-> FALSE]
    /\ disk_meta = [present |-> FALSE]
    /\ BuildOff
    /\ RetrieveOff
    /\ ClientOff
    /\ LLMOff

\* process_file, lines 95-103: the text is loaded; an empty text returns 0
\* at once, any other is cleaned and handed to the chunker
ProcessFileBegin(stem, d, mc, ov, dry) ==
    /\ pc_ingest = "idle"
    /\ ingests < MaxIngests
    /\ ingests' = ingests + 1
    /\ IF d = <<>>
         THEN /\ latest' = IF dry THEN latest
                           ELSE [latest EXCEPT ![stem] = Processed(<<>>)]
              /\ UNCHANGED <<source_id, dry_run, pc_ingest, raw, cleaned>>
              /\ UNCHANGED chunkVars
         ELSE /\ source_id' = stem
              /\ dry_run' = dry
              /\ pc_ingest' = "chunking"
              /\ raw' = d
              /\ cleaned' = clean_text(d)
              /\ text' = clean_text(d)
              /\ max_chars' = mc
              /\ overlap' = ov
              /\ pc_chunk' = "begin"
              /\ UNCHANGED <<paragraphs, para_i, chunks, current_chunk,
                             chunk_seeds, chunk_paras, cur_seed, cur_paras>>
              /\ UNCHANGED latest
    /\ UNCHANGED <<out_dir, recleaned, pc_clean>>
    /\ UNCHANGED <<diskVars, buildVars, retrVars, clientVars, llmVars>>

\* process_file, lines 105-131: the chunker has returned; a dry run returns
\* the count, any other run opens <source_id>.jsonl for writing and writes
\* one record per chunk
ProcessFileWrite ==
    /\ pc_ingest = "chunking"
    /\ pc_chunk = "done"
    /\ IF dry_run
         THEN UNCHANGED <<out_dir, latest>>
         ELSE /\ out_dir' = [out_dir EXCEPT ![source_id] =
                               JsonlFile(ProcessFileRecords(source_id, chunks))]
              /\ latest' = [latest EXCEPT ![source_id] = Processed(chunks)]
    /\ pc_ingest' = "idle"
    /\ source_id' = ""
    /\ dry_run' = FALSE
    /\ raw' = <<>>
    /\ cleaned' = <<>>
    /\ text' = <<>> /\ max_chars' = 0 /\ overlap' = 0 /\ paragraphs' = <<>>
    /\ para_i' = 0 /\ chunks' = <<>> /\ current_chunk' = <<>>
    /\ pc_chunk' = "off" /\ chunk_seeds' = <<>> /\ chunk_paras' = <<>>
    /\ cur_seed' = <<>> /\ cur_paras' = <<>>
    /\ UNCHANGED <<ingests, recleaned, pc_clean>>
    /\ UNCHANGED <<diskVars, buildVars, retrVars, clientVars, llmVars>>

NextIngest ==
    \/ \E stem \in Stems, d \in Docs, mc \in {1, DefaultMaxChars},
          ov \in {0, DefaultOverlap}, dry \in BOOLEAN :
            ProcessFileBegin(stem, d, mc, ov, dry)
    \/ ChunkBegin
    \/ ChunkSkipBlank
    \/ ChunkSeal
    \/ ChunkExtend
    \/ ChunkFinish
    \/ ProcessFileWrite

SpecIngest == InitIngest /\ [][NextIngest]_vars

(***************************************************************************)
(* Claims about process_file                                               *)
(***************************************************************************)
\* the records of <stem>.jsonl, none when the file does not exist
RecordsOf(dir, stem) ==
    IF dir[stem].present THEN dir[stem].records ELSE <<>>

TextsOf(recs) == [j \in 1..Len(recs) |-> recs[j]["text"]]

\* the records of every file of the directory are numbered 0, 1, ..., carry
\* the id made of stem and number, have a text, and share no id
WellNumbered(dir) ==
    /\ \A stem \in Stems :
          \A j \in 1..Len(RecordsOf(dir, stem)) :
              LET rec == RecordsOf(dir, stem)[j]
              IN  /\ rec["chunk_index"] = j - 1
                  /\ rec["source_id"] = stem
                  /\ rec["id"] = stem \o "_chunk_" \o ToString(rec["chunk_index"])
                  /\ Strip(rec["text"]) # <<>>
    /\ \A s1, s2 \in Stems :
          \A j1 \in 1..Len(RecordsOf(dir, s1)) :
              \A j2 \in 1..Len(RecordsOf(dir, s2)) :
                  RecordsOf(dir, s1)[j1]["id"] = RecordsOf(dir, s2)[j2]["id"]
                     => (s1 = s2 /\ j1 = j2)

\* C14: after every process_file that is not a dry run, the records of
\* <source_id>.jsonl have chunk_index 0, 1, ..., n-1 in the order of the
\* chunks of the document, the id "<source_id>_chunk_<chunk_index>", a text
\* that is not empty once trimmed, and no two records of the output
\* directory share an id.
C14_ContiguousIds ==
    [][/\ WellNumbered(out_dir')
       /\ (pc_ingest = "chunking" /\ pc_ingest' = "idle" /\ ~dry_run) =>
             TextsOf(RecordsOf(out_dir', source_id)) = chunks]_vars

\* both stems hold records, one of them three
C14_Witness ==
    /\ pc_ingest = "idle"
    /\ \A stem \in Stems : Len(RecordsOf(out_dir, stem)) >= 1
    /\ \E stem \in Stems : Len(RecordsOf(out_dir, stem)) = 3

\* C15: after any sequence of process_file calls that are not dry runs,
\* <source_id>.jsonl holds exactly the chunk records of the text processed
\* last for that source_id, none when that text was empty, and no record of
\* an earlier ingestion.
C15_Overwrites ==
    pc_ingest = "idle" =>
        \A stem \in Stems :
            latest[stem].called =>
                TextsOf(RecordsOf(out_dir, stem)) = latest[stem].chunks

(***************************************************************************)
(* vector_client.py: one VectorClient constructed directly, with or        *)
(* without an injected model, and then used.                               *)
(***************************************************************************)
MaxUses == 2

NoEnv == [tried |-> FALSE]
NoResult == [op |-> "none", ok |-> TRUE]
MethodResult(op, out) == [op |-> op, ok |-> out.ok]

\* _encode, lines 125-154: an array of shape (n, dim), or what model.encode
\* raises; the fitted TF-IDF vectorizer is only asked to transform
EncodeOutcomes(self, n) ==
    {Ok([n |-> n, dim |-> self.dim])}
    \cup (IF self.mode \in {"sbert", "injected"}
            THEN {Raise(Exc("encode", L)) : L \in EncodeMsgLens}
            ELSE {})

\* embed_query, lines 156-168: _encode([text]), then normalize_L2, whose
\* failure is swallowed
EmbedQueryOutcomes(self) == EncodeOutcomes(self, 1)

InitClient ==
    /\ disk_index \in IndexFiles
    /\ disk_meta \in MetaFiles
    /\ libs \in [faiss : BOOLEAN, sbert : BOOLEAN, tfidf : BOOLEAN]
    /\ _client = <<>> /\ pc = <<>> /\ client = <<>> /\ top_k = <<>>
    /\ ret = <<>> /\ calls = <<>> /\ loads = 0 /\ searched = <<>>
    /\ vc = NoClient
    /\ model_arg = NoModel
    /\ env = NoEnv
    /\ last = NoResult
    /\ uses = 0
    /\ ChunkOff
    /\ BuildOff
    /\ CleanOff
    /\ IngestOff
    /\ LLMOff

\* VectorClient(index_dir, model_name, model), lines 34-107
NewClient(model, ch) ==
    /\ env = NoEnv
    /\ LET made == VectorClientInit(disk_index, disk_meta, model, libs, ch)
       IN  /\ vc' = IF made.ok THEN made.val ELSE NoClient
           /\ last' = MethodResult("__init__", made)
    /\ model_arg' = model
    /\ env' = ch
    /\ UNCHANGED uses
    /\ UNCHANGED <<libs, _client, pc, client, top_k, ret, calls, loads,
                   searched>>
    /\ UNCHANGED <<chunkVars, diskVars, buildVars, cleanVars, ingestVars,
                   llmVars>>

\* vc._encode(texts), lines 125-154
UseEncode(n) ==
    /\ vc.constructed
    /\ uses < MaxUses
    /\ uses' = uses + 1
    /\ \E out \in EncodeOutcomes(vc, n) : last' = MethodResult("_encode", out)
    /\ UNCHANGED <<vc, model_arg, env>>
    /\ UNCHANGED <<libs, _client, pc, client, top_k, ret, calls, loads,
                   searched>>
    /\ UNCHANGED <<chunkVars, diskVars, buildVars, cleanVars, ingestVars,
                   llmVars>>

\* vc.embed_query(text), lines 156-168
UseEmbedQuery ==
    /\ vc.constructed
    /\ uses < MaxUses
    /\ uses' = uses + 1
    /\ \E out \in EmbedQueryOutcomes(vc) :
          last' = MethodResult("embed_query", out)
    /\ UNCHANGED <<vc, model_arg, env>>
    /\ UNCHANGED <<libs, _client, pc, client, top_k, ret, calls, loads,
                   searched>>
    /\ UNCHANGED <<chunkVars, diskVars, buildVars, cleanVars, ingestVars,
                   llmVars>>

\* vc.search(query, k), lines 170-204
UseSearch(k) ==
    /\ vc.constructed
    /\ uses < MaxUses
    /\ uses' = uses + 1
    /\ \E out \in SearchOutcomes(vc, k) : last' = MethodResult("search", out)
    /\ UNCHANGED <<vc, model_arg, env>>
    /\ UNCHANGED <<libs, _client, pc, client, top_k, ret, calls, loads,
                   searched>>
    /\ UNCHANGED <<chunkVars, diskVars, buildVars, cleanVars, ingestVars,
                   llmVars>>

NextClient ==
    \/ \E model \in {NoModel, InjectedModel(ModelDim)}, ch \in EnvChoices :
          NewClient(model, ch)
    \/ \E n \in 1..2 : UseEncode(n)
    \/ UseEmbedQuery
    \/ \E k \in TopKs : UseSearch(k)

SpecClient == InitClient /\ [][NextClient]_vars

(***************************************************************************)
(* Claims about the VectorClient's embedder                                *)
(***************************************************************************)
\* the constructor got as far as choosing the embedder (line 77)
ReachedSelection ==
    /\ disk_index.present /\ disk_meta.present
    /\ libs.faiss
    /\ disk_meta.json.kind \in {"list", "object"}
    /\ disk_index.readable

\* the sentence-transformers library is there and its model loaded
SbertUsable == libs.sbert /\ env.sbert_loads

\* the embedder of the client is the first available of: the injected model,
\* the sentence-transformers model, TF-IDF; there is no client without one
SelectedByPriority ==
    env # NoEnv =>
        /\ vc.constructed => vc.mode \in {"injected", "sbert", "tfidf"}
        /\ (vc.constructed /\ vc.mode = "injected")
              <=> (ReachedSelection /\ model_arg.given)
        /\ (vc.constructed /\ vc.mode = "sbert")
              <=> (ReachedSelection /\ ~model_arg.given /\ SbertUsable)
        /\ (vc.constructed /\ vc.mode = "tfidf")
              => (ReachedSelection /\ ~model_arg.given /\ ~SbertUsable
                    /\ libs.tfidf)
        /\ (~model_arg.given /\ ~SbertUsable /\ ~libs.tfidf) => ~vc.constructed
        /\ vc.constructed => vc.fits = (IF vc.mode = "tfidf" THEN 1 ELSE 0)

\* C16: the embedder is chosen once, in the constructor, by priority
\* (injected model, else sentence-transformers if present and loading, else
\* TF-IDF if scikit-learn is present, else the constructor raises); a
\* constructed client has exactly one of the three modes, _encode,
\* embed_query and search never change it, and the TF-IDF vectorizer is
\* fitted once, in the constructor, and never again.
C16_SelectedOnce ==
    [][/\ SelectedByPriority'
       /\ vc.constructed => (vc'.mode = vc.mode /\ vc'.fits = vc.fits
                               /\ vc'.dim = vc.dim)]_vars

\* a client that fell back to TF-IDF after the sentence-transformers model
\* failed to load has been used MaxUses times, last for a search
C16_Witness ==
    /\ vc.constructed
    /\ vc.mode = "tfidf"
    /\ libs.sbert /\ ~env.sbert_loads
    /\ uses = MaxUses
    /\ last.op = "search"

(***************************************************************************)
(* retrieval_agent.py: retrieve called again and again, one call at a      *)
(* time.                                                                   *)
(***************************************************************************)
MaxSeqCalls == 3

\* retrieve(query, top_k) is called while no other call is running, line 40
SeqCall(t, k) ==
    /\ \A u \in Threads : pc[u] = "idle"
    /\ CallWithin(t, k, MaxSeqCalls)

NextSequential ==
    \E t \in Threads :
        \/ \E k \in TopKs : SeqCall(t, k)
        \/ GetClientCached(t)
        \/ GetClientBegin(t)
        \/ ConstructOk(t)
        \/ ConstructFail(t)
        \/ SearchOk(t)
        \/ SearchFail(t)

SpecSequential == InitRetrieve /\ [][NextSequential]_vars

(***************************************************************************)
(* Claims about the cached client                                          *)
(***************************************************************************)
\* C18: with retrieve calls made one after another, a construction that
\* failed leaves _client unset and the next call constructs again; once a
\* construction has succeeded, _client is never cleared or replaced and no
\* later call constructs a VectorClient.
C18_CacheOnlySuccess ==
    [][\A t \in Threads :
          /\ (pc[t] = "constructing" /\ pc'[t] = "idle")
                => (~_client'.constructed /\ ret'[t].failed = "init")
          /\ (pc[t] = "get_client" /\ ~_client.constructed /\ pc'[t] # pc[t])
                => pc'[t] = "constructing"
          /\ (pc[t] = "get_client" /\ _client.constructed /\ pc'[t] # pc[t])
                => (pc'[t] = "search" /\ client'[t] = _client)
          /\ _client.constructed => (_client' = _client /\ loads' = loads)
          /\ loads' <= 1]_vars

\* three calls in a row: the first failed to construct, the second
\* constructed the client, the third was served by the cached client
C18_Witness ==
    /\ \A t \in Threads : pc[t] = "idle"
    /\ calls = 3
    /\ loads = 1
    /\ _client.constructed
    /\ \E t, u \in Threads :
          /\ ret[t].failed = "init"
          /\ ret[u].status = "returned" /\ ret[u].failed = "none"
          /\ Len(ret[u].value) >= 1

(***************************************************************************)
(* The pipeline: process_file writes chunk records, create_embeddings.main *)
(* builds the index directory from them, retrieve serves queries from it.  *)
(***************************************************************************)
MaxPipelineCalls == 2

\* the .jsonl files of out_dir in sorted name order: "a.jsonl" sorts before
\* "a_chunk_0.jsonl"
StemByName == <<"a", "a_chunk_0">>

\* json.loads of a line process_file wrote: the same keys and values; a text
\* is from here on used through its length and its prefixes
AsLoaded(rec) ==
    [key \in DOMAIN rec |->
        IF key = "text" THEN [body |-> rec[key], len |-> Len(rec[key])]
        ELSE rec[key]]

\* the lines of the files in out_dir, as load_jsonl_folder reads them
JsonlLines(dir) ==
    [n \in FileNames |->
        LET recs == IF dir[StemByName[n]].present
                      THEN dir[StemByName[n]].records ELSE <<>>
        IN  [j \in 1..Len(recs) |-> JsonLine(AsLoaded(recs[j]))]]

\* create_embeddings.main is started with --input_dir = out_dir, lines 46-59
StartBuild ==
    /\ pc_ingest = "idle"
    /\ pc_build = "off"
    /\ folder' = JsonlLines(out_dir)
    /\ pc_build' = "start"
    /\ pc_ingest' = "off"
    /\ ingests' = 0
    /\ latest' = <<>>
    /\ UNCHANGED <<records, embs, source_id, dry_run, out_dir>>
    /\ UNCHANGED <<chunkVars, diskVars, retrVars, cleanVars, clientVars,
                   llmVars>>

\* the process that serves retrieve starts once main has returned, where
\* main ran: sentence_transformers was imported (create_embeddings.py line
\* 6) and faiss wrote the index (lines 33-42)
StartService ==
    /\ pc_build \in {"done", "no_records"}
    /\ pc = <<>>
    /\ libs' \in [faiss : {TRUE}, sbert : {TRUE}, tfidf : BOOLEAN]
    /\ _client' = NoClient
    /\ pc' = [t \in Threads |-> "idle"]
    /\ client' = [t \in Threads |-> NoClient]
    /\ top_k' = [t \in Threads |-> 0]
    /\ ret' = [t \in Threads |-> NotCalled]
    /\ calls' = 0
    /\ searched' = [t \in Threads |-> <<>>]
    /\ UNCHANGED loads
    /\ UNCHANGED <<chunkVars, diskVars, buildVars, cleanVars, ingestVars,
                   clientVars, llmVars>>

\* the /retrieve handler of main.py (lines 53-67) calls retrieve on the
\* event loop's thread, with k = max(1, min(k, 25))
PipelineCall(k) ==
    /\ \A u \in Threads : pc[u] = "idle"
    /\ CallWithin(1, k, MaxPipelineCalls)

NextPipeline ==
    \/ NextIngest
    \/ StartBuild
    \/ NextBuild
    \/ StartService
    \/ /\ pc # <<>>
       /\ \E k \in 1..MaxTopK : PipelineCall(k)
    \/ /\ pc # <<>>
       /\ \E t \in Threads :
             \/ GetClientCached(t)
             \/ GetClientBegin(t)
             \/ ConstructOk(t)
             \/ ConstructFail(t)
             \/ SearchOk(t)
             \/ SearchFail(t)

SpecPipeline == InitIngest /\ [][NextPipeline]_vars

(***************************************************************************)
(* Claims about the pipeline                                               *)
(***************************************************************************)
\* record r carries the attribution of a chunk record of out_dir
AttributedTo(r, dir) ==
    \E stem \in Stems :
        \E j \in 1..Len(RecordsOf(dir, stem)) :
            LET rec == RecordsOf(dir, stem)[j]
            IN  /\ r["source_id"] = rec["source_id"]
                /\ r["title"] = rec["title"]
                /\ r["chunk_index"] = rec["chunk_index"]

\* C19: the chunk records process_file writes have no path, so the
\* metadata entries main makes of them have a null path, and so has every
\* result retrieve returns for them; what identifies the chunk in a result
\* is its source_id, title and chunk_index.
C19_PathIsNull ==
    /\ \A stem \in Stems :
          \A j \in 1..Len(RecordsOf(out_dir, stem)) :
              ~Has(RecordsOf(out_dir, stem)[j], "path")
    /\ (disk_meta.present /\ disk_meta.json.kind = "list") =>
          \A i \in 1..Len(disk_meta.json.items) :
              ~Has(disk_meta.json.items[i], "path")
    /\ pc # <<>> =>
          \A t \in Threads :
              (ret[t].status = "returned" /\ ret[t].failed = "none") =>
                  \A i \in 1..Len(ret[t].value) :
                      LET r == ret[t].value[i]
                      IN  /\ ~Has(r, "path")
                          /\ DOMAIN r = {"score", "source_id", "title",
                                         "excerpt", "chunk_index"}
                          /\ AttributedTo(r, out_dir)

\* retrieve has returned two results for chunk records process_file wrote
C19_Witness ==
    /\ pc # <<>>
    /\ \E t \in Threads :
          /\ ret[t].status = "returned" /\ ret[t].failed = "none"
          /\ Len(ret[t].value) = 2
          /\ ret[t].value[1]["chunk_index"] # ret[t].value[2]["chunk_index"]

(***************************************************************************)
(* llm_client.py: LLMClient.chat_completion on a constructed client, whose *)
(* backend is "gemini" or "openai" (lines 49-68).                          *)
(***************************************************************************)
MaxChats == 2
MaxAttempts == 3

\* the roles of the messages that carry content
MessageLists == SUBSET {"system", "user"}

\* what a backend request can raise
BackendErrors == {"TimeoutError", "RateLimitError", "AttributeError"}

\* line 152: time.sleep(2 ** attempt)
Backoff_Linear(a) == a + 1
Backoff(a) == 2 ^ a

NoReturn == [kind |-> "none"]
ReturnedText == [kind |-> "text"]
RaisedRuntimeError(cause) == [kind |-> "RuntimeError", cause |-> cause]

\* _extract_system_and_user_messages, lines 70-86, raises ValueError; only
\* the gemini branch calls it (line 105)
UserPromptMissing == backend = "gemini" /\ "user" \notin messages

InitLLM ==
    /\ backend \in {"gemini", "openai"}
    /\ messages = {}
    /\ attempt = 0
    /\ last_exc = ""
    /\ slept = <<>>
    /\ backend_calls = 0
    /\ pc_llm = "idle"
    /\ llm_ret = NoReturn
    /\ chats = 0
    /\ disk_index = [present |-> FALSE]
    /\ disk_meta = [present |-> FALSE]
    /\ ChunkOff
    /\ BuildOff
    /\ RetrieveOff
    /\ CleanOff
    /\ IngestOff
    /\ ClientOff

\* chat_completion(messages) is called, lines 98-101
ChatCall(msgs) ==
    /\ pc_llm \in {"idle", "returned", "raised"}
    /\ chats < MaxChats
    /\ chats' = chats + 1
    /\ messages' = msgs
    /\ attempt' = 0
    /\ last_exc' = ""
    /\ slept' = <<>>
    /\ backend_calls' = 0
    /\ llm_ret' = NoReturn
    /\ pc_llm' = "try"
    /\ UNCHANGED backend
    /\ UNCHANGED <<chunkVars, diskVars, buildVars, retrVars, cleanVars,
                   ingestVars, clientVars>>

\* lines 103-144: the backend answers and its text is returned
AttemptSucceeds ==
    /\ pc_llm = "try"
    /\ attempt < MaxAttempts
    /\ ~UserPromptMissing
    /\ backend_calls' = backend_calls + 1
    /\ llm_ret' = ReturnedText
    /\ pc_llm' = "returned"
    /\ UNCHANGED <<backend, messages, attempt, last_exc, slept, chats>>
    /\ UNCHANGED <<chunkVars, diskVars, buildVars, retrVars, cleanVars,
                   ingestVars, clientVars>>

\* lines 105 and 149-151: no user prompt, ValueError before any request
AttemptWithoutPrompt ==
    /\ pc_llm = "try"
    /\ attempt < MaxAttempts
    /\ UserPromptMissing
    /\ last_exc' = "ValueError"
    /\ pc_llm' = "sleep"
    /\ UNCHANGED <<backend, messages, attempt, slept, backend_calls, llm_ret,
                   chats>>
    /\ UNCHANGED <<chunkVars, diskVars, buildVars, retrVars, cleanVars,
                   ingestVars, clientVars>>

\* lines 126-144 and 149-151: the request raises
AttemptFails(e) ==
    /\ pc_llm = "try"
    /\ attempt < MaxAttempts
    /\ ~UserPromptMissing
    /\ backend_calls' = backend_calls + 1
    /\ last_exc' = e
    /\ pc_llm' = "sleep"
    /\ UNCHANGED <<backend, messages, attempt, slept, llm_ret, chats>>
    /\ UNCHANGED <<chunkVars, diskVars, buildVars, retrVars, cleanVars,
                   ingestVars, clientVars>>

\* lines 152-153: time.sleep(2 ** attempt); continue
Sleep ==
    /\ pc_llm = "sleep"
    /\ slept' = Append(slept, Backoff(attempt))
    /\ attempt' = attempt + 1
    /\ pc_llm' = "try"
    /\ UNCHANGED <<backend, messages, last_exc, backend_calls, llm_ret, chats>>
    /\ UNCHANGED <<chunkVars, diskVars, buildVars, retrVars, cleanVars,
                   ingestVars, clientVars>>

\* lines 155-156: the loop is over, RuntimeError
GiveUp ==
    /\ pc_llm = "try"
    /\ attempt = MaxAttempts
    /\ llm_ret' = RaisedRuntimeError(last_exc)
    /\ pc_llm' = "raised"
    /\ UNCHANGED <<backend, messages, attempt, last_exc, slept, backend_calls,
                   chats>>
    /\ UNCHANGED <<chunkVars, diskVars, buildVars, retrVars, cleanVars,
                   ingestVars, clientVars>>

\* one pass of the loop body up to return or except
Attempt ==
    \/ AttemptSucceeds
    \/ AttemptWithoutPrompt
    \/ \E e \in BackendErrors : AttemptFails(e)

NextLLM ==
    \/ \E msgs \in MessageLists : ChatCall(msgs)
    \/ AttemptSucceeds
    \/ AttemptWithoutPrompt
    \/ \E e \in BackendErrors : AttemptFails(e)
    \/ Sleep
    \/ GiveUp

SpecLLM == InitLLM /\ [][NextLLM]_vars

\* every backend request ends (returns or raises), and so does time.sleep
SpecLLMLive ==
    /\ SpecLLM
    /\ WF_vars(Attempt)
    /\ WF_vars(Sleep)
    /\ WF_vars(GiveUp)

(***************************************************************************)
(* Claims about chat_completion                                            *)
(***************************************************************************)
InCall == pc_llm \in {"try", "sleep"}
CallEnded == pc_llm \in {"returned", "raised"}

\* the failed attempts so far were each followed by a sleep of 1, 2, 4 s
BackedOff ==
    /\ slept = [i \in 1..Len(slept) |-> 2 ^ (i - 1)]
    /\ Len(slept) = attempt

RetriesBounded ==
    /\ backend_calls <= 3
    /\ attempt <= 3
    /\ pc_llm \in {"try", "returned", "raised"} => BackedOff
    /\ pc_llm = "returned" =>
          /\ llm_ret = ReturnedText
          /\ attempt < 3
          /\ backend_calls = attempt + 1
    /\ pc_llm = "raised" =>
          /\ llm_ret.kind = "RuntimeError"
          /\ slept = <<1, 2, 4>>
          /\ llm_ret.cause # ""
    /\ (pc_llm # "idle" /\ UserPromptMissing) =>
          /\ backend_calls = 0
          /\ pc_llm # "returned"

\* C20: chat_completion makes at most 3 backend attempts, returns the text
\* of the first that succeeds and attempts no more, sleeps 1, 2, 4 seconds
\* after the failed attempts, the third included, raises RuntimeError after
\* the third failure, and every call ends in one of the two ways, whatever
\* is raised, a missing user prompt included.
C20_BoundedRetries ==
    /\ []RetriesBounded
    /\ [][pc_llm = "returned" /\ pc_llm' = "returned"
             => backend_calls' = backend_calls]_vars
    /\ (InCall ~> CallEnded)

\* a call raised after three backend failures and sleeps of 1, 2 and 4 s
C20_Witness ==
    /\ pc_llm = "raised"
    /\ backend_calls = 3
    /\ slept = <<1, 2, 4>>
    /\ llm_ret.cause = "RateLimitError"

====
